---- MODULE Spec2Model ----
(***************************************************************************)
(* Model of the respiratory-care dashboard front end (src/script.js and    *)
(* its sibling build src/unnamed/part_000): the severity classifier, the   *)
(* localStorage-backed observation store, the demo-data seeding, the       *)
(* vitals form submission and the dashboard's latest-value / alert         *)
(* computation.                                                            *)
(*                                                                         *)
(* JavaScript values are modelled as records [k |-> kind, n |-> payload].  *)
(* A finite number holds its value in units of 1/Scale, so fractional      *)
(* readings (parseFloat, Math.random) and Math.round are representable.    *)
(* A Date holds its time value in hours.                                   *)
(***************************************************************************)
EXTENDS Integers, Sequences, FiniteSets, TLC

VARIABLES
    argType,       \* classifier harness: the `type` argument
    argValue,      \* classifier harness: the `value` argument
    argSet,        \* classifier harness: the threshold set looked up for `type`
    result,        \* classifier harness: the returned zone ("pending" before the call)
    localStorage,  \* localStorage[STORAGE_KEY_VITALS]: [present, items]
    page,          \* which document the tab shows: "blank", "index", "upload"
    data,          \* DashboardApp.data
    latestValues,  \* updateCardsAndAlerts: latest observation per type
    alerts,        \* updateCardsAndAlerts: the alert sequence rendered
    cardBP,        \* the blood-pressure card of index.html
    lastAlert,     \* last window.alert message of the upload page
    thrown,        \* TRUE when the last handler ended with an uncaught exception
    charts,        \* DashboardApp.charts: the series handed to each chart
    build,         \* which build of the script the pages load
    appended,      \* number of observations appended by form submissions
    updated        \* the array `updated` of the last submission whose save
                   \* returned, <<>> once another page is loaded

vars == <<argType, argValue, argSet, result, localStorage, page, data,
          latestValues, alerts, cardBP, lastAlert, thrown, charts, build,
          appended, updated>>

classifyVars == <<argType, argValue, argSet, result>>
appVars == <<localStorage, page, data, latestValues, alerts, cardBP,
             lastAlert, thrown, charts, build, appended, updated>>

(***************************************************************************)
(* Bounds of the model.                                                    *)
(***************************************************************************)
Scale == 10         \* resolution of modelled numbers: 1/Scale
MaxValue == 165     \* largest classifier argument explored (above every bound)
BelowZero == 2      \* classifier arguments go down to -BelowZero
MaxAppend == 2      \* observations appended by form submissions in one run

(***************************************************************************)
(* JavaScript values.                                                      *)
(***************************************************************************)
Num(i) == [k |-> "number", n |-> i * Scale]       \* the integer literal i
Frac(s) == [k |-> "number", n |-> s]              \* the number s/Scale
NaN == [k |-> "NaN", n |-> 0]
PosInfinity == [k |-> "Infinity", n |-> 0]
NegInfinity == [k |-> "-Infinity", n |-> 0]
Null == [k |-> "null", n |-> 0]
Undefined == [k |-> "undefined", n |-> 0]

\* ToNumber, as applied by isNaN and by the relational operators
ToNumber(v) ==
    CASE v.k = "null" -> Frac(0)
      [] v.k = "undefined" -> NaN
      [] v.k = "Date" -> Frac(v.n * Scale)
      [] v.k = "InvalidDate" -> NaN
      [] OTHER -> v

isNaN(v) == ToNumber(v).k = "NaN"

\* ToBoolean of a number or undefined: 0, NaN and undefined are falsy
Truthy(v) ==
    CASE v.k = "number" -> v.n # 0
      [] v.k \in {"Infinity", "-Infinity"} -> TRUE
      [] OTHER -> FALSE

\* a > b on numbers (false when either side is NaN)
JsGt(a, b) ==
    LET x == ToNumber(a)
        y == ToNumber(b)
    IN  CASE x.k = "NaN" \/ y.k = "NaN" -> FALSE
          [] x.k = "Infinity" -> y.k # "Infinity"
          [] x.k = "-Infinity" -> FALSE
          [] y.k = "Infinity" -> FALSE
          [] y.k = "-Infinity" -> TRUE
          [] OTHER -> x.n > y.n

\* a < b on numbers
JsLt(a, b) == JsGt(b, a)

(***************************************************************************)
(* Threshold table and colour zones.                                       *)
(***************************************************************************)
THRESHOLDS ==
    [ SpO2   |-> [dangerLower |-> 92, warningLower |-> 95],
      RR     |-> [dangerUpper |-> 24, warningUpper |-> 20, warningLower |-> 12],
      EtCO2  |-> [dangerUpper |-> 45, warningUpper |-> 40],
      BP_sys |-> [dangerUpper |-> 160, dangerLower |-> 90, warningUpper |-> 140],
      HR     |-> [dangerUpper |-> 120, dangerLower |-> 50,
                  warningUpper |-> 100, warningLower |-> 60],
      Pulse  |-> [dangerUpper |-> 120, dangerLower |-> 50,
                  warningUpper |-> 100, warningLower |-> 60] ]

COLORS == [normal |-> "normal", warning |-> "warning", danger |-> "danger"]

\* names every object inherits from Object.prototype: THRESHOLDS[name] is
\* then a truthy value that carries none of the four bounds
InheritedKeys == {"constructor", "toString"}

NoBounds == [b \in {} |-> 0]

\* t.<bound>: the bound as a number, undefined when the set does not have it
Bound(t, b) == IF b \in DOMAIN t THEN Num(t[b]) ELSE Undefined

\* the two tests of determineColorZone, for the threshold set t of the type
\* (variant: a value on a bound counts as beyond it)
ZoneInclusive(t, value) ==
    IF (Truthy(Bound(t, "dangerUpper")) /\ ~JsLt(value, Bound(t, "dangerUpper")))
       \/ (Truthy(Bound(t, "dangerLower")) /\ ~JsGt(value, Bound(t, "dangerLower")))
    THEN COLORS.danger
    ELSE IF (Truthy(Bound(t, "warningUpper")) /\ ~JsLt(value, Bound(t, "warningUpper")))
            \/ (Truthy(Bound(t, "warningLower")) /\ ~JsGt(value, Bound(t, "warningLower")))
         THEN COLORS.warning
         ELSE COLORS.normal

zoneOfSet(t, value) ==
    IF (Truthy(Bound(t, "dangerUpper")) /\ JsGt(value, Bound(t, "dangerUpper")))
       \/ (Truthy(Bound(t, "dangerLower")) /\ JsLt(value, Bound(t, "dangerLower")))
    THEN COLORS.danger
    ELSE IF (Truthy(Bound(t, "warningUpper")) /\ JsGt(value, Bound(t, "warningUpper")))
            \/ (Truthy(Bound(t, "warningLower")) /\ JsLt(value, Bound(t, "warningLower")))
         THEN COLORS.warning
         ELSE COLORS.normal

\* THRESHOLDS[type]: "own" entry, "inherited" member, or undefined
HasEntry(type) == type \in DOMAIN THRESHOLDS
Lookup(type) ==
    IF HasEntry(type) THEN THRESHOLDS[type] ELSE NoBounds
LookupTruthy(type) == HasEntry(type) \/ type \in InheritedKeys

\* (variant: no test for a missing value)
DczUnguarded(type, value) ==
    IF ~LookupTruthy(type) THEN COLORS.normal
    ELSE zoneOfSet(Lookup(type), value)

\* (variant: BP_dia falls back on the BP_sys entry)
DczBpDiaAsSys(type, value) ==
    IF value.k = "null" \/ value.k = "undefined" \/ isNaN(value) THEN COLORS.normal
    ELSE IF type = "BP_dia" THEN zoneOfSet(THRESHOLDS["BP_sys"], value)
    ELSE IF ~LookupTruthy(type) THEN COLORS.normal
    ELSE zoneOfSet(Lookup(type), value)

determineColorZone(type, value) ==
    IF value.k = "null" \/ value.k = "undefined" \/ isNaN(value) THEN COLORS.normal
    ELSE IF ~LookupTruthy(type) THEN COLORS.normal
    ELSE zoneOfSet(Lookup(type), value)

(***************************************************************************)
(* Observations and their persisted form.                                  *)
(***************************************************************************)
Date(h) == [k |-> "Date", n |-> h]
InvalidDate == [k |-> "InvalidDate", n |-> 0]
IsoString(h) == [k |-> "string", n |-> h]

Observation(type, value, unit, timestamp, colorZone) ==
    [patientId |-> "P001", type |-> type, value |-> value, unit |-> unit,
     timestamp |-> timestamp, colorZone |-> colorZone]

\* JSON.stringify of a property value: a non-finite number becomes null and
\* a Date is replaced by its toJSON(), null for an invalid date
JsonValue(v) ==
    CASE v.k \in {"NaN", "Infinity", "-Infinity"} -> Null
      [] v.k = "Date" -> IsoString(v.n)
      [] v.k = "InvalidDate" -> Null
      [] OTHER -> v

JSONstringify(dataArray) ==
    [i \in 1..Len(dataArray) |->
        [dataArray[i] EXCEPT !.value = JsonValue(@), !.timestamp = JsonValue(@)]]

\* new Date(x) for a parsed JSON value: an ISO string gives its date back,
\* null gives the epoch
NewDateOf(x) ==
    CASE x.k = "string" -> Date(x.n)
      [] x.k = "null" -> Date(0)
      [] x.k = "Date" -> x
      [] OTHER -> InvalidDate

\* loadVitalsData when localStorage holds `stored`
loadVitalsDataOf(stored) ==
    IF ~stored.present THEN <<>>
    ELSE [i \in 1..Len(stored.items) |->
            [stored.items[i] EXCEPT !.timestamp = NewDateOf(@)]]

loadVitalsData == loadVitalsDataOf(localStorage)

\* the value of localStorage after saveVitalsData(dataArray) returns
saveVitalsData(dataArray) ==
    [present |-> TRUE, items |-> JSONstringify(dataArray)]

(***************************************************************************)
(* initializeFakeData.  Math.random() is a stream determined by a seed; a  *)
(* draw is a number in [0, 1) held in units of 1/Scale.                    *)
(***************************************************************************)
RandomDraws == <<0, Scale \div 2, Scale - 1>>
RandomSeeds == 0..1

RECURSIVE RandomState(_, _)
RandomState(seed, k) ==
    IF k = 0 THEN seed ELSE (3 * RandomState(seed, k - 1) + 1) % 7

\* the k-th value Math.random() returns (k counted from 0)
MathRandom(seed, k) == RandomDraws[(RandomState(seed, k) % Len(RandomDraws)) + 1]

\* Math.round of the number s/Scale: halves go up
MathRound(s) == (2 * s + Scale) \div (2 * Scale)

Builds == {"script.js", "part_000"}

\* the seven observations pushed by the loop body for index i, after k
\* earlier draws
FakeRow(b, now, seed, i, k) ==
    LET k2 == IF i = 2 THEN k + 1 ELSE k + 2
        baseHR == 75 * Scale + MathRandom(seed, k) * 10 - 5 * Scale
        baseSpO2 == IF i = 2 THEN 91 * Scale
                    ELSE 96 * Scale + MathRandom(seed, k + 1) * 3
        baseRR == 16 * Scale + MathRandom(seed, k2) * 4 - 2 * Scale
        baseSys == 120 * Scale + MathRandom(seed, k2 + 1) * 20 - 10 * Scale
        baseDia == 80 * Scale + MathRandom(seed, k2 + 2) * 10 - 5 * Scale
        baseEt == 35 * Scale + MathRandom(seed, k2 + 3) * 5
        time == Date(now - i * 4)
        \* script.js classifies the raw value, part_000 the rounded one
        arg(base) == IF b = "script.js" THEN Frac(base) ELSE Num(MathRound(base))
    IN  << Observation("HR", Num(MathRound(baseHR)), "bpm", time,
                       determineColorZone("HR", arg(baseHR))),
           Observation("SpO2", Num(MathRound(baseSpO2)), "%", time,
                       determineColorZone("SpO2", arg(baseSpO2))),
           Observation("RR", Num(MathRound(baseRR)), "per-min", time,
                       determineColorZone("RR", arg(baseRR))),
           Observation("BP_sys", Num(MathRound(baseSys)), "mmHg", time, COLORS.normal),
           Observation("BP_dia", Num(MathRound(baseDia)), "mmHg", time, COLORS.normal),
           Observation("Pulse", Num(MathRound(baseHR)), "bpm", time,
                       determineColorZone("Pulse", arg(baseHR))),
           Observation("EtCO2", Num(MathRound(baseEt)), "mmHg", time, COLORS.normal) >>

RECURSIVE FakeData(_, _, _, _, _)
FakeData(b, now, seed, i, k) ==
    IF i < 0 THEN <<>>
    ELSE FakeRow(b, now, seed, i, k)
            \o FakeData(b, now, seed, i - 1, IF i = 2 THEN k + 5 ELSE k + 6)

\* what initializeFakeData hands to saveVitalsData when the store is empty
initializeFakeData(b, now, seed) == FakeData(b, now, seed, 6, 0)

(***************************************************************************)
(* DashboardApp.updateCardsAndAlerts and renderCharts.                     *)
(***************************************************************************)
CardTypes == <<"SpO2", "HR", "RR", "Pulse", "EtCO2">>
LatestTypes == <<"SpO2", "HR", "RR", "Pulse", "EtCO2", "BP_sys", "BP_dia">>
ChartTypes == <<"SpO2", "HR", "RR">>

\* a.timestamp - b.timestamp, in hours (timestamps of loaded data are valid)
TimeDiff(a, b) == a.timestamp.n - b.timestamp.n

\* Array.prototype.sort with a comparator on timestamps.  The sort is stable:
\* element j ends up before element i when it compares less, or compares
\* equal and came first.  desc: (a, b) => b.timestamp - a.timestamp, so j
\* compares less than i when its time is greater; otherwise
\* (a, b) => a.timestamp - b.timestamp
\* (variant: of two elements that compare equal the later one comes first)
SortTiesReversed(arr, desc) ==
    LET n == Len(arr)
        key == SubSeq([i \in 1..n |-> arr[i].timestamp.n], 1, n)
        before(j, i) == IF desc THEN key[j] > key[i] \/ (key[j] = key[i] /\ j > i)
                        ELSE key[j] < key[i] \/ (key[j] = key[i] /\ j > i)
        rank == SubSeq([i \in 1..n |-> 1 + Cardinality({j \in 1..n : before(j, i)})],
                       1, n)
    IN  SubSeq([p \in 1..n |-> arr[CHOOSE i \in 1..n : rank[i] = p]], 1, n)

sort(arr, desc) ==
    LET n == Len(arr)
        key == SubSeq([i \in 1..n |-> arr[i].timestamp.n], 1, n)
        before(j, i) == IF desc THEN key[j] > key[i] \/ (key[j] = key[i] /\ j < i)
                        ELSE key[j] < key[i] \/ (key[j] = key[i] /\ j < i)
        rank == SubSeq([i \in 1..n |-> 1 + Cardinality({j \in 1..n : before(j, i)})],
                       1, n)
    IN  SubSeq([p \in 1..n |-> arr[CHOOSE i \in 1..n : rank[i] = p]], 1, n)

\* Array.prototype.find with d => d.type === type: the first match, <<>>
\* standing for undefined
find(arr, type) ==
    LET hits == {i \in 1..Len(arr) : arr[i].type = type}
    IN  IF hits = {} THEN <<>>
        ELSE <<arr[CHOOSE i \in hits : \A j \in hits : i <= j]>>

\* Array.prototype.filter with x => x.type === type
filter(arr, type) == SelectSeq(arr, LAMBDA x : x.type = type)

\* the latest-value table built from this.data
\* (variant: find runs on the unsorted data)
LatestUnsorted(d) ==
    [i \in 1..Len(LatestTypes) |-> find(d, LatestTypes[i])]

LatestOf(d) ==
    LET sortedData == sort(d, TRUE)
    IN  [i \in 1..Len(LatestTypes) |-> find(sortedData, LatestTypes[i])]

TypeIndex(type) == CHOOSE i \in 1..Len(LatestTypes) : LatestTypes[i] = type
Latest(latest, type) == latest[TypeIndex(type)]

\* the alert pushed for a card type whose latest reading d is in danger
AlertFor(b, type, d) ==
    IF b = "script.js" THEN [type |-> type, text |-> "abnormal", value |-> d.value]
    ELSE [type |-> type,
          text |-> IF type = "EtCO2" /\ JsGt(d.value, Num(45)) THEN "EtCO2-high"
                   ELSE IF type = "RR" /\ JsGt(d.value, Num(24)) THEN "RR-high"
                   ELSE IF type = "SpO2" /\ JsLt(d.value, Num(92)) THEN "SpO2-low"
                   ELSE "abnormal",
          value |-> d.value]

\* d.colorZone === "danger": the zone stored with the observation decides
\* (variant: the zone is recomputed from the stored value)
InDangerReclassified(type, d) == determineColorZone(type, d.value) = COLORS.danger

InDanger(type, d) == d.colorZone = COLORS.danger

\* the forEach over the five single-value cards: the alerts it pushes
RECURSIVE CardAlerts(_, _, _)
CardAlerts(b, latest, i) ==
    IF i > Len(CardTypes) THEN <<>>
    ELSE LET type == CardTypes[i]
             l == Latest(latest, type)
         IN  (IF l # <<>> /\ InDanger(type, l[1])
              THEN <<AlertFor(b, type, l[1])>> ELSE <<>>)
                \o CardAlerts(b, latest, i + 1)

\* the blood-pressure card; script.js writes value and time only
BpAvailable(latest) == Latest(latest, "BP_sys") # <<>> /\ Latest(latest, "BP_dia") # <<>>

BpOverride(sys) == JsGt(sys.value, Num(160)) \/ JsLt(sys.value, Num(90))

BpFinalColor(sys, dia) ==
    LET sysColor == determineColorZone("BP_sys", sys.value)
        diaColor == determineColorZone("BP_sys", dia.value)
    IN  IF BpOverride(sys) THEN COLORS.danger
        ELSE IF sysColor = COLORS.danger \/ diaColor = COLORS.danger THEN COLORS.danger
        ELSE IF sysColor = COLORS.warning \/ diaColor = COLORS.warning THEN COLORS.warning
        ELSE COLORS.normal

\* (variant: the time shown is always the systolic one)
BpCardSysTime(b, latest) ==
    IF ~BpAvailable(latest) THEN [shown |-> FALSE]
    ELSE LET sys == Latest(latest, "BP_sys")[1]
             dia == Latest(latest, "BP_dia")[1]
         IN  [shown |-> TRUE,
              value |-> <<sys.value, dia.value>>,
              time |-> sys.timestamp,
              status |-> IF b = "script.js" THEN "unset" ELSE BpFinalColor(sys, dia)]

BpCard(b, latest) ==
    IF ~BpAvailable(latest) THEN [shown |-> FALSE]
    ELSE LET sys == Latest(latest, "BP_sys")[1]
             dia == Latest(latest, "BP_dia")[1]
         IN  [shown |-> TRUE,
              value |-> <<sys.value, dia.value>>,
              time |-> IF TimeDiff(sys, dia) > 0 THEN sys.timestamp ELSE dia.timestamp,
              status |-> IF b = "script.js" THEN "unset" ELSE BpFinalColor(sys, dia)]

BpAlerts(b, latest) ==
    IF b = "part_000" /\ BpAvailable(latest) /\ BpOverride(Latest(latest, "BP_sys")[1])
    THEN <<[type |-> "BP", text |-> "systolic-abnormal",
            value |-> Latest(latest, "BP_sys")[1].value]>>
    ELSE <<>>

\* the alerts array when updateCardsAndAlerts renders it
\* (variant: the blood-pressure alert is pushed first)
UpdateBpFirst(b, latest) == BpAlerts(b, latest) \o CardAlerts(b, latest, 1)

updateCardsAndAlerts(b, latest) == CardAlerts(b, latest, 1) \o BpAlerts(b, latest)

\* prepare(type) of renderCharts: the observations behind labels and data
\* (variant: the observations are left in insertion order)
PrepareUnsorted(d, type) == filter(d, type)

prepare(d, type) == sort(filter(d, type), FALSE)

renderCharts(d) == [i \in 1..Len(ChartTypes) |-> prepare(d, ChartTypes[i])]

\* this.data once updateDashboard has returned.  Array.prototype.sort
\* reorders its receiver in place: updateCardsAndAlerts sorts the copy
\* [...this.data] and prepare sorts the array filter returns, so the array
\* this.data refers to keeps its elements and their order
\* (variant: updateCardsAndAlerts sorts this.data itself)
DataSortedInPlace(d) == sort(d, TRUE)

updateDashboard(d) == d

(***************************************************************************)
(* The vitals form of upload.html.                                         *)
(***************************************************************************)
\* the fields array of the submit handler, by type
FormTypes == <<"BP_sys", "BP_dia", "SpO2", "HR", "Pulse", "RR", "EtCO2">>
FormTypeSet == {FormTypes[i] : i \in 1..Len(FormTypes)}

\* decimal strings typed into the form, with the number each denotes
Numerals ==
    { <<"170", 170>>, <<"120", 120>>, <<"80", 80>>, <<"100", 100>>,
      <<"90", 90>>, <<"98", 98>>, <<"130", 130>>, <<"25", 25>>, <<"50", 50>> }

\* parseFloat: the number a decimal string denotes, Infinity for "Infinity",
\* NaN for text that starts with no number
parseFloat(str) ==
    IF \E p \in Numerals : p[1] = str
    THEN Num((CHOOSE p \in Numerals : p[1] = str)[2])
    ELSE IF str = "Infinity" THEN PosInfinity
    ELSE NaN

\* what the fields of the form may hold ("" is an empty field)
FieldInputs(type) ==
    CASE type = "BP_sys" -> {"170", "120", "abc"}
      [] type = "BP_dia" -> {"80", "100"}
      [] type = "SpO2" -> {"90", "98"}
      [] type = "HR" -> {"130", "abc", "Infinity"}
      [] type = "Pulse" -> {"130"}
      [] type = "RR" -> {"25"}
      [] type = "EtCO2" -> {"50"}

UnitOf(type) ==
    CASE type \in {"BP_sys", "BP_dia", "EtCO2"} -> "mmHg"
      [] type = "SpO2" -> "%"
      [] type \in {"HR", "Pulse"} -> "bpm"
      [] type = "RR" -> "per-min"

\* values of the measurementTime field, and new Date(tStr) for each
TimeInputs == {"", "T30", "garbage"}
NowValues == {24}

NewDate(tStr) == IF tStr = "T30" THEN Date(30) ELSE InvalidDate

\* the records pushed by fields.forEach, in the order of the fields array;
\* inputs maps each type to the text of its field
RECURSIVE NewRecords(_, _, _)
NewRecords(inputs, timestamp, i) ==
    IF i > Len(FormTypes) THEN <<>>
    ELSE LET type == FormTypes[i]
             v == inputs[type]
         IN  (IF v # ""
              THEN <<Observation(type, parseFloat(v), UnitOf(type), timestamp,
                                 determineColorZone(type, parseFloat(v)))>>
              ELSE <<>>)
                \o NewRecords(inputs, timestamp, i + 1)

\* form contents with at most n fields filled
FormInputs(n) ==
    UNION { { [t \in FormTypeSet |-> IF t \in S THEN f[t] ELSE ""] :
                f \in { g \in [S -> UNION {FieldInputs(t) : t \in S}] :
                            \A t \in S : g[t] \in FieldInputs(t) } } :
            S \in { X \in SUBSET FormTypeSet : Cardinality(X) <= n } }

(***************************************************************************)
(* Handlers.                                                               *)
(***************************************************************************)
NoDashboard ==
    /\ data' = <<>>
    /\ latestValues' = <<>>
    /\ alerts' = <<>>
    /\ cardBP' = [shown |-> FALSE]
    /\ charts' = <<>>

\* what updateDashboard renders from this.data as just loaded
Render ==
    /\ latestValues' = LatestOf(data')
    /\ alerts' = updateCardsAndAlerts(build, latestValues')
    /\ cardBP' = BpCard(build, latestValues')
    /\ charts' = renderCharts(data')

\* index.html is loaded, the store holding observations: DashboardApp.init
\* finds initializeFakeData returning early
\* (variant: initializeFakeData has no early return and saves the demo data)
DashboardInitReseed ==
    /\ Len(loadVitalsData) > 0
    /\ \E now \in NowValues, seed \in RandomSeeds :
          localStorage' = saveVitalsData(initializeFakeData(build, now, seed))
    /\ page' = "index"
    /\ lastAlert' = "none"
    /\ thrown' = FALSE
    /\ data' = updateDashboard(loadVitalsDataOf(localStorage'))
    /\ Render
    /\ updated' = <<>>
    /\ UNCHANGED <<build, appended, classifyVars>>

DashboardInit ==
    /\ Len(loadVitalsData) > 0
    /\ page' = "index"
    /\ lastAlert' = "none"
    /\ thrown' = FALSE
    /\ data' = updateDashboard(loadVitalsData)
    /\ Render
    /\ updated' = <<>>
    /\ UNCHANGED <<localStorage, build, appended, classifyVars>>

\* index.html is loaded, the store empty: initializeFakeData seeds it
DashboardInitSeed ==
    /\ Len(loadVitalsData) = 0
    /\ \E now \in NowValues, seed \in RandomSeeds :
          localStorage' = saveVitalsData(initializeFakeData(build, now, seed))
    /\ page' = "index"
    /\ lastAlert' = "none"
    /\ thrown' = FALSE
    /\ data' = updateDashboard(loadVitalsDataOf(localStorage'))
    /\ Render
    /\ updated' = <<>>
    /\ UNCHANGED <<build, appended, classifyVars>>

\* index.html is loaded, the store empty, and setItem throws for the quota:
\* init ends before this.data is assigned
DashboardInitQuota ==
    /\ Len(loadVitalsData) = 0
    /\ page' = "index"
    /\ lastAlert' = "none"
    /\ thrown' = TRUE
    /\ NoDashboard
    /\ updated' = <<>>
    /\ UNCHANGED <<localStorage, build, appended, classifyVars>>

\* upload.html is loaded: UploadApp.init
OpenUpload ==
    /\ page \in {"blank", "index"}
    /\ page' = "upload"
    /\ lastAlert' = "none"
    /\ thrown' = FALSE
    /\ NoDashboard
    /\ updated' = <<>>
    /\ UNCHANGED <<localStorage, build, appended, classifyVars>>

\* the timestamp of a submission: new Date(tStr), or new Date() for ""
Timestamps ==
    {NewDate(tStr) : tStr \in TimeInputs \ {""}} \cup {Date(now) : now \in NowValues}

\* the submit handler of the vitals form: every field empty
SubmitEmpty ==
    /\ page = "upload"
    /\ lastAlert' = "empty"
    /\ thrown' = FALSE
    /\ UNCHANGED <<localStorage, page, appended, updated>>
    /\ UNCHANGED <<data, latestValues, alerts, cardBP, charts, build, classifyVars>>

\* the submit handler, some field filled, setItem throwing for the quota:
\* the exception leaves the listener, neither alert nor navigation follows
\* (variant: the exception is swallowed and the handler carries on)
SubmitQuotaSwallowed ==
    /\ page = "upload"
    /\ appended < MaxAppend
    /\ thrown' = FALSE
    /\ lastAlert' = "success"
    /\ page' = "navigating"
    /\ UNCHANGED <<localStorage, appended, updated>>
    /\ UNCHANGED <<data, latestValues, alerts, cardBP, charts, build, classifyVars>>

SubmitQuota ==
    /\ page = "upload"
    /\ appended < MaxAppend
    /\ thrown' = TRUE
    /\ UNCHANGED <<localStorage, page, lastAlert, appended, updated>>
    /\ UNCHANGED <<data, latestValues, alerts, cardBP, charts, build, classifyVars>>

\* the submit handler, some field filled, the save succeeding
SubmitForm ==
    /\ page = "upload"
    /\ appended < MaxAppend
    /\ \E inputs \in FormInputs(MaxAppend - appended), timestamp \in Timestamps :
        LET newRecords == NewRecords(inputs, timestamp, 1)
        IN  /\ newRecords # <<>>
            /\ thrown' = FALSE
            /\ updated' = loadVitalsData \o newRecords
            /\ localStorage' = saveVitalsData(updated')
            /\ lastAlert' = "success"
            /\ page' = "navigating"
            /\ appended' = appended + Len(newRecords)
    /\ UNCHANGED <<data, latestValues, alerts, cardBP, charts, build, classifyVars>>

(***************************************************************************)
(* Classifier harness: the arguments are drawn in the initial state and    *)
(* one call is made.                                                       *)
(***************************************************************************)
ClassifyTypes == FormTypeSet \cup {"Temp"} \cup InheritedKeys

NumericValues ==
    {Frac(s) : s \in (0 - BelowZero * Scale)..(MaxValue * Scale)}
        \cup {PosInfinity, NegInfinity}
MissingValues == {Null, Undefined, NaN}
ClassifyValues == NumericValues \cup MissingValues

BoundNames == {"dangerUpper", "dangerLower", "warningUpper", "warningLower"}

\* threshold sets whose bounds are absent, 0 or 1
SmallSets ==
    UNION {[B -> {0, 1}] : B \in SUBSET BoundNames}
SmallValues ==
    {Frac(s) : s \in (0 - BelowZero * Scale)..(2 * Scale)}

AppStart ==
    /\ localStorage = [present |-> FALSE, items |-> <<>>]
    /\ page = "blank"
    /\ data = <<>>
    /\ latestValues = <<>>
    /\ alerts = <<>>
    /\ cardBP = [shown |-> FALSE]
    /\ lastAlert = "none"
    /\ thrown = FALSE
    /\ charts = <<>>
    /\ appended = 0
    /\ updated = <<>>

AppInit == AppStart /\ build = "script.js"

Init ==
    /\ argType = "none"
    /\ argValue = Undefined
    /\ argSet = NoBounds
    /\ result = "pending"
    /\ AppStart
    /\ build \in Builds

Next == DashboardInit \/ DashboardInitSeed \/ DashboardInitQuota \/ OpenUpload \/ SubmitEmpty \/ SubmitQuota \/ SubmitForm

Spec == Init /\ [][Next]_vars

InitClassify ==
    /\ argType \in ClassifyTypes
    /\ argValue \in ClassifyValues
    /\ argSet = Lookup(argType)
    /\ result = "pending"
    /\ AppInit

Classify ==
    /\ result = "pending"
    /\ result' = determineColorZone(argType, argValue)
    /\ UNCHANGED <<argType, argValue, argSet>>
    /\ UNCHANGED appVars

NextClassify == Classify

SpecClassify == InitClassify /\ [][NextClassify]_vars

InitBounds ==
    /\ argType = "custom"
    /\ argValue \in SmallValues
    /\ argSet \in SmallSets
    /\ result = "pending"
    /\ AppInit

ClassifySet ==
    /\ result = "pending"
    /\ result' = zoneOfSet(argSet, argValue)
    /\ UNCHANGED <<argType, argValue, argSet>>
    /\ UNCHANGED appVars

NextBounds == ClassifySet

SpecBounds == InitBounds /\ [][NextBounds]_vars

(***************************************************************************)
(* Classifier claims.                                                      *)
(***************************************************************************)
\* the danger-first reference of the specification: a bound applies when it
\* is defined, and a value on a bound is not beyond it
Above(v, b) ==
    \/ v.k = "Infinity"
    \/ v.k = "number" /\ v.n > b * Scale
Below(v, b) ==
    \/ v.k = "-Infinity"
    \/ v.k = "number" /\ v.n < b * Scale
ReferenceZone(t, v) ==
    IF \/ "dangerUpper" \in DOMAIN t /\ Above(v, t["dangerUpper"])
       \/ "dangerLower" \in DOMAIN t /\ Below(v, t["dangerLower"])
    THEN "danger"
    ELSE IF \/ "warningUpper" \in DOMAIN t /\ Above(v, t["warningUpper"])
            \/ "warningLower" \in DOMAIN t /\ Below(v, t["warningLower"])
         THEN "warning"
         ELSE "normal"

\* C1: for every type of the threshold table and every numeric value,
\* determineColorZone returns the danger-first reference zone; for RR, 25 is
\* danger, 22 warning, 16 normal and every value below 12 is warning.
C1_DangerFirst ==
    (result # "pending" /\ argType \in DOMAIN THRESHOLDS /\ argValue \in NumericValues)
        => /\ result = ReferenceZone(THRESHOLDS[argType], argValue)
           /\ (argType = "RR" /\ argValue = Num(25)) => result = "danger"
           /\ (argType = "RR" /\ argValue = Num(22)) => result = "warning"
           /\ (argType = "RR" /\ argValue = Num(16)) => result = "normal"
           /\ (argType = "RR" /\ Below(argValue, 12)) => result = "warning"

\* a value exactly on the danger bound of RR has been classified, not as danger
C1_Witness ==
    /\ argType = "RR" /\ argValue = Num(24) /\ result = "warning"

\* C2: a null, undefined or not-a-number value is classified normal, for
\* every type, known or not.
C2_MissingIsNormal ==
    (result # "pending" /\ argValue \in MissingValues) => result = "normal"

C2_Witness ==
    /\ argType = "SpO2" /\ argValue = Null /\ result = "normal"

\* C3: a type without an entry in the threshold table (BP_dia included) is
\* classified normal for every value.
C3_UnknownTypeIsNormal ==
    (result # "pending" /\ argType \notin DOMAIN THRESHOLDS) => result = "normal"

C3_Witness ==
    /\ argType = "BP_dia" /\ argValue = Num(MaxValue) /\ result = "normal"

\* C4: a bound whose value is 0 applies like any other bound: the zone is
\* the reference zone of the threshold set, whose bounds are skipped only
\* when absent.
C4_ZeroBoundApplies ==
    result # "pending" => result = ReferenceZone(argSet, argValue)

(***************************************************************************)
(* Store and dashboard claims.                                             *)
(***************************************************************************)
\* the dashboard has rendered this.data
Rendered == page = "index" /\ ~thrown

IndicesOf(d, type) == {i \in 1..Len(d) : d[i].type = type}
MaxTimeOf(d, type) ==
    CHOOSE t \in {d[i].timestamp.n : i \in IndicesOf(d, type)} :
        \A i \in IndicesOf(d, type) : d[i].timestamp.n <= t
\* the observations of a type that carry its greatest timestamp
NewestOf(d, type) ==
    {d[i] : i \in {j \in IndicesOf(d, type) : d[j].timestamp.n = MaxTimeOf(d, type)}}

\* C5: every persisted observation's colorZone is determineColorZone of its
\* own persisted type and value.
C5_StoredZoneMatches ==
    \A i \in 1..Len(localStorage.items) :
        localStorage.items[i].colorZone =
            determineColorZone(localStorage.items[i].type, localStorage.items[i].value)

\* C6: the latest-value resolution yields, for every type, an observation of
\* that type whose timestamp is at least that of every observation of the
\* type, and yields none exactly when the store holds none of the type.
C6_LatestIsNewest ==
    Rendered =>
        \A k \in 1..Len(LatestTypes) :
            LET type == LatestTypes[k]
                l == latestValues[k]
            IN  /\ (l = <<>>) <=> (IndicesOf(data, type) = {})
                /\ l # <<>> =>
                    /\ \E i \in IndicesOf(data, type) : data[i] = l[1]
                    /\ \A i \in IndicesOf(data, type) :
                          l[1].timestamp.n >= data[i].timestamp.n

\* a newer reading was inserted before an older one of its type, and a type
\* without observations resolved to none
C6_Witness ==
    /\ Rendered
    /\ \E i, j \in 1..Len(data) :
          /\ i < j /\ data[i].type = data[j].type
          /\ data[i].timestamp.n > data[j].timestamp.n
          /\ Latest(latestValues, data[i].type) = <<data[i]>>
    /\ \E k \in 1..Len(LatestTypes) : latestValues[k] = <<>>

BpAlertCount == Cardinality({i \in 1..Len(alerts) : alerts[i].type = "BP"})

\* C7: the blood-pressure reading is shown exactly when the store holds a
\* BP_sys and a BP_dia observation; its time is then the later of the two
\* latest timestamps, and without it there is no value, no status and no
\* blood-pressure alert.
C7_CompositeBp ==
    Rendered =>
        LET both == IndicesOf(data, "BP_sys") # {} /\ IndicesOf(data, "BP_dia") # {}
        IN  /\ cardBP.shown <=> both
            /\ cardBP.shown =>
                  LET ts == MaxTimeOf(data, "BP_sys")
                      td == MaxTimeOf(data, "BP_dia")
                  IN  cardBP.time = Date(IF ts > td THEN ts ELSE td)
            /\ ~cardBP.shown => cardBP = [shown |-> FALSE] /\ BpAlertCount = 0

\* the diastolic reading is the later of the two
C7_Witness ==
    /\ Rendered /\ cardBP.shown
    /\ MaxTimeOf(data, "BP_dia") > MaxTimeOf(data, "BP_sys")
    /\ cardBP.time = Date(MaxTimeOf(data, "BP_dia"))

AlertCount(type) == Cardinality({i \in 1..Len(alerts) : alerts[i].type = type})

\* C8: for each single-value type there is one alert when its newest
\* observation is stored as danger and none otherwise (a type may hold
\* several newest observations, which then have to agree); without a
\* danger-zone latest reading the alert sequence is empty.
C8_AlertIffLatestDanger ==
    Rendered =>
        /\ \A k \in 1..Len(CardTypes) :
              LET type == CardTypes[k]
                  newest == IF IndicesOf(data, type) = {} THEN {}
                            ELSE NewestOf(data, type)
              IN  /\ AlertCount(type) <= 1
                  /\ (newest # {} /\ \A o \in newest : o.colorZone = "danger")
                        => AlertCount(type) = 1
                  /\ (\A o \in newest : o.colorZone # "danger")
                        => AlertCount(type) = 0
        /\ (\A k \in 1..Len(LatestTypes) :
                latestValues[k] = <<>> \/ latestValues[k][1].colorZone # "danger")
              => alerts = <<>>

\* an older danger reading of SpO2 is superseded and raises no alert, while
\* another type's latest reading does
C8_Witness ==
    /\ Rendered
    /\ \E i \in IndicesOf(data, "SpO2") :
          /\ data[i].colorZone = "danger"
          /\ data[i].timestamp.n < MaxTimeOf(data, "SpO2")
    /\ AlertCount("SpO2") = 0
    /\ AlertCount("HR") = 1

\* C9: with the blood-pressure reading shown, the systolic alert is emitted
\* and the card's status is danger exactly when the latest systolic value is
\* above 160 or below 90.
C9_SystolicOverride ==
    (Rendered /\ cardBP.shown) =>
        LET sys == Latest(latestValues, "BP_sys")[1].value
        IN  (BpAlertCount = 1 /\ cardBP.status = "danger")
                <=> (Above(sys, 160) \/ Below(sys, 90))

AlertOrder == <<"SpO2", "HR", "RR", "Pulse", "EtCO2", "BP">>
OrderIndex(type) == CHOOSE i \in 1..Len(AlertOrder) : AlertOrder[i] = type

\* C10: the alerts are in the order SpO2, HR, RR, Pulse, EtCO2, BP.
C10_AlertOrder ==
    \A i, j \in 1..Len(alerts) :
        i < j => OrderIndex(alerts[i].type) < OrderIndex(alerts[j].type)

\* RR was inserted after Pulse and newer than the blood pressure, and its
\* alert comes before theirs
C10_Witness ==
    \/ /\ Rendered /\ Len(alerts) = 2
       /\ alerts[1].type = "RR" /\ alerts[2].type = "Pulse"
    \/ /\ Rendered /\ Len(alerts) = 2
       /\ alerts[1].type \in {"SpO2", "HR", "RR"} /\ alerts[2].type = "BP"

(***************************************************************************)
(* Chart, frame and persistence claims.                                    *)
(***************************************************************************)
\* how many times the observation r occurs in the sequence s
Occurrences(s, r) == Cardinality({i \in 1..Len(s) : s[i] = r})

\* C11: each chart series holds exactly the observations of its type, each
\* as many times as the store holds it (duplicates kept, no other type), in
\* non-decreasing order of timestamp; a type without observations has an
\* empty series.
C11_SeriesSortedPermutation ==
    Rendered =>
        \A k \in 1..Len(ChartTypes) :
            LET type == ChartTypes[k]
                series == charts[k]
            IN  /\ Len(series) = Cardinality(IndicesOf(data, type))
                /\ \A i \in 1..Len(series) :
                      /\ series[i].type = type
                      /\ Occurrences(series, series[i]) = Occurrences(data, series[i])
                /\ \A i \in IndicesOf(data, type) : Occurrences(series, data[i]) > 0
                /\ \A i, j \in 1..Len(series) :
                      i < j => series[i].timestamp.n <= series[j].timestamp.n
                /\ IndicesOf(data, type) = {} => series = <<>>

\* the store holds an HR reading inserted after a newer one, and the HR
\* series holds two readings of one timestamp
C11_Witness ==
    /\ Rendered
    /\ \E i, j \in IndicesOf(data, "HR") :
          i < j /\ data[i].timestamp.n > data[j].timestamp.n
    /\ \E i, j \in 1..Len(charts[2]) :
          i < j /\ charts[2][i].timestamp = charts[2][j].timestamp

\* C12: the latest-value resolution, the alert computation and the series
\* projection leave the store as it was: once the dashboard has rendered,
\* DashboardApp.data is the persisted list, element for element in insertion
\* order, and rendering a store that holds observations writes nothing.
C12_ReadsLeaveStore ==
    [][ (page' = "index" /\ ~thrown')
            => /\ data' = loadVitalsDataOf(localStorage')
               /\ Len(loadVitalsData) > 0 => localStorage' = localStorage ]_vars

\* the dashboard rendered data that neither of its sorts would leave in
\* place: an older reading before a newer one, and an HR reading after a
\* newer HR reading
C12_Witness ==
    /\ Rendered /\ data = loadVitalsData
    /\ \E i, j \in 1..Len(data) :
          i < j /\ data[i].timestamp.n < data[j].timestamp.n
    /\ \E i, j \in IndicesOf(data, "HR") :
          i < j /\ data[i].timestamp.n > data[j].timestamp.n
    /\ Len(charts[2]) = Cardinality(IndicesOf(data, "HR"))

\* C13: after a successful submission, loading the store yields the array
\* the handler saved: the prior contents followed by the new observations,
\* every field of every observation as submitted.
C13_AppendLoadRoundTrip ==
    lastAlert = "success" => loadVitalsData = updated

\* C14: a submission whose write throws ends with the exception, reports no
\* success, stays on the form and leaves the persisted list as it was;
\* success is reported only when the list has grown, and a submission that
\* stored nothing either threw or reported the empty form.
C14_PersistFailureReported ==
    [][ (page = "upload" /\ page' # "index")
            => /\ thrown' => /\ localStorage' = localStorage
                             /\ lastAlert' # "success"
                             /\ page' = "upload"
               /\ lastAlert' = "success"
                     => /\ ~thrown'
                        /\ Len(localStorage'.items) > Len(localStorage.items)
               /\ localStorage' = localStorage
                     => thrown' \/ lastAlert' = "empty" ]_vars

\* a submission to a store that holds observations has thrown
C14_Witness ==
    /\ page = "upload" /\ thrown
    /\ Len(loadVitalsData) > 0
    /\ lastAlert # "success"

(***************************************************************************)
(* Blood-pressure severity, ties and seeding claims.                       *)
(***************************************************************************)
\* the more severe of two zones
MoreSevere(a, b) ==
    IF a = "danger" \/ b = "danger" THEN "danger"
    ELSE IF a = "warning" \/ b = "warning" THEN "warning"
    ELSE "normal"

\* C15: in the build that colours the blood-pressure card, the card's status
\* is the more severe of determineColorZone("BP_sys", systolic) and
\* determineColorZone("BP_sys", diastolic); a diastolic value below 90 or
\* above 160 makes it danger.
C15_CombinedSeverity ==
    (Rendered /\ build = "part_000" /\ cardBP.shown) =>
        LET sys == Latest(latestValues, "BP_sys")[1].value
            dia == Latest(latestValues, "BP_dia")[1].value
        IN  /\ cardBP.status = MoreSevere(determineColorZone("BP_sys", sys),
                                          determineColorZone("BP_sys", dia))
            /\ (Below(dia, 90) \/ Above(dia, 160)) => cardBP.status = "danger"

\* the first-inserted of the observations of a type that carry its greatest
\* timestamp
FirstNewest(d, type) ==
    LET newest == {i \in IndicesOf(d, type) : d[i].timestamp.n = MaxTimeOf(d, type)}
    IN  d[CHOOSE i \in newest : \A j \in newest : i <= j]

\* C16: when several observations of a type share its greatest timestamp,
\* the latest-value resolution selects the earliest-inserted of them.
C16_TieEarliestInserted ==
    Rendered =>
        \A k \in 1..Len(LatestTypes) :
            IndicesOf(data, LatestTypes[k]) # {}
                => latestValues[k] = <<FirstNewest(data, LatestTypes[k])>>

\* two different HR readings share the greatest timestamp and the one
\* inserted first is the latest value
C16_Witness ==
    /\ Rendered
    /\ \E i, j \in IndicesOf(data, "HR") :
          /\ i < j /\ data[i] # data[j]
          /\ data[i].timestamp.n = MaxTimeOf(data, "HR")
          /\ data[j].timestamp.n = MaxTimeOf(data, "HR")
          /\ Latest(latestValues, "HR") = <<data[i]>>

\* C17: DashboardApp.init writes the demo observations only to an empty
\* store: when the store holds observations the persisted list is left as it
\* is, so whatever init changes, it changes from empty.
C17_SeedOnlyWhenEmpty ==
    [][ page' = "index"
            => /\ Len(loadVitalsData) > 0 => localStorage' = localStorage
               /\ localStorage' # localStorage
                     => /\ Len(loadVitalsData) = 0
                        /\ Len(loadVitalsDataOf(localStorage')) > 0 ]_vars

\* the dashboard has rendered a store that holds submitted observations and
\* nothing else
C17_Witness ==
    /\ Rendered
    /\ appended > 0
    /\ Len(loadVitalsData) = appended
    /\ data = loadVitalsData

====
